---- MODULE Spec2Model ----
(***************************************************************************)
(* Model of the comparison engine of main.py (GA4 Organic Traffic          *)
(* Analyzer): calculate_comparison_metrics and analyze_by_dimension, as    *)
(* main() calls them on the two fetched row-sets; of a whole run of        *)
(* main(), from the client-secret check to the two reports; and of the     *)
(* runs of ga4_complete_data_collector.py and filtro_app_2025.py, stage by *)
(* stage.                                                                  *)
(*                                                                         *)
(* Spec, TwiceSpec, FunctionSpec and AnalyzeSpec enter the analysis with   *)
(* DataFrames in hand; ReportSpec enters the reports with the analysis     *)
(* done; MainSpec, CollectorSpec and ScriptsSpec run the scripts from      *)
(* their start.  The file system is taken to accept the writes of the      *)
(* reports and of the token file.                                          *)
(*                                                                         *)
(* Numbers are exact rationals <<n, d>> (d > 0, lowest terms): the         *)
(* rounding of IEEE doubles is not modelled.  A DataFrame is the sequence  *)
(* of its rows; a DataFrame built from an empty list has no columns.       *)
(* The 'date' and 'period' columns are read by neither function and are    *)
(* left out of the rows.                                                   *)
(***************************************************************************)
EXTENDS Integers, Sequences, FiniteSets, TLC

\* Largest number of rows the API returns for one period.
MaxRows == 2

\* Largest number of Organic Search sessions of one period, where the
\* sessions are counted.
MaxSessions == 6

---------------------------------------------------------------------------
\* Exact rational arithmetic (Python float arithmetic, without rounding)

Abs(x) == IF x < 0 THEN -x ELSE x

RECURSIVE Gcd(_, _)
Gcd(a, b) == IF b = 0 THEN a ELSE Gcd(b, a % b)

Norm(n, d) ==
    LET g == Gcd(Abs(n), Abs(d))
        s == IF d < 0 THEN -1 ELSE 1
    IN  <<(s * n) \div g, (s * d) \div g>>

Num(i) == <<i, 1>>
RAdd(a, b) == Norm(a[1] * b[2] + b[1] * a[2], a[2] * b[2])
RSub(a, b) == Norm(a[1] * b[2] - b[1] * a[2], a[2] * b[2])
RMul(a, b) == Norm(a[1] * b[1], a[2] * b[2])
RDiv(a, b) == Norm(a[1] * b[2], a[2] * b[1])
RGt(a, b) == a[1] * b[2] > b[1] * a[2]
RGe(a, b) == a[1] * b[2] >= b[1] * a[2]
RLt(a, b) == a[1] * b[2] < b[1] * a[2]
RFloor(a) == Num(a[1] \div a[2])

---------------------------------------------------------------------------
\* Rows as fetch_organic_traffic_data builds them

SummableKeys == {"sessions", "users", "new_users", "conversions", "revenue"}
AveragedKeys == {"engagement_rate", "bounce_rate", "avg_session_duration"}
MetricKeys == SummableKeys \cup AveragedKeys
DimensionKeys == {"device", "source_medium"}

\* Values of the two dimensions, and their lexicographic order
DimValues == <<"bing / organic", "desktop", "google / organic", "mobile">>
Rank(v) == CHOOSE i \in 1..Len(DimValues) : DimValues[i] = v

\* The (source_medium, device) pairs the API answers with
DimPairs ==
    { <<"google / organic", "desktop">>,
      <<"google / organic", "mobile">>,
      <<"bing / organic", "mobile">> }

\* The metric values the API answers with: a row of a day almost without
\* traffic (a refund makes its revenue negative) and a row of a busier day
MetricProfiles ==
    { [sessions |-> Num(0), users |-> Num(1), new_users |-> Num(0),
       conversions |-> Num(0), revenue |-> Num(-1),
       engagement_rate |-> <<1, 2>>, bounce_rate |-> Num(0),
       avg_session_duration |-> Num(0)],
      [sessions |-> Num(1), users |-> Num(3), new_users |-> Num(1),
       conversions |-> <<1, 2>>, revenue |-> <<5, 2>>,
       engagement_rate |-> <<7, 10>>, bounce_rate |-> <<1, 2>>,
       avg_session_duration |-> Num(45)] }

MakeRow(dims, m) ==
    [source_medium |-> dims[1], device |-> dims[2],
     sessions |-> m.sessions, users |-> m.users, new_users |-> m.new_users,
     engagement_rate |-> m.engagement_rate,
     avg_session_duration |-> m.avg_session_duration,
     bounce_rate |-> m.bounce_rate,
     conversions |-> m.conversions, revenue |-> m.revenue]

Rows == { MakeRow(d, m) : d \in DimPairs, m \in MetricProfiles }

\* The DataFrames of at most n rows
RECURSIVE FramesUpTo(_)
FramesUpTo(n) ==
    IF n = 0 THEN {<<>>}
    ELSE LET shorter == FramesUpTo(n - 1)
         IN  shorter \cup { Append(df, row) : df \in shorter, row \in Rows }

DataFrames == FramesUpTo(MaxRows)

\* pd.DataFrame(data): the columns are the keys of the row dictionaries,
\* so a DataFrame of no rows has no column at all
Columns(df) == IF Len(df) = 0 THEN {} ELSE DOMAIN df[1]

None == "None"
KeyError == "KeyError"

\* One row of fetch_organic_search_data: the channel and the eight metrics
MakeOrganicRow(m) ==
    [channel |-> "Organic Search",
     sessions |-> m.sessions, users |-> m.users, new_users |-> m.new_users,
     engagement_rate |-> m.engagement_rate,
     avg_session_duration |-> m.avg_session_duration,
     bounce_rate |-> m.bounce_rate,
     conversions |-> m.conversions, revenue |-> m.revenue]

\* One row of fetch_landing_pages
LandingRow ==
    [landing_page |-> "/", sessions |-> Num(1), users |-> Num(1),
     bounce_rate |-> <<1, 2>>]

\* The DataFrames a run of main() may build from the rows of a response (of
\* no rows when the API returned none)
TrafficFrames ==
    LET low == CHOOSE m \in MetricProfiles : m.sessions = Num(0)
        high == CHOOSE m \in MetricProfiles : m.sessions = Num(1)
        a == MakeRow(<<"google / organic", "desktop">>, low)
        b == MakeRow(<<"bing / organic", "mobile">>, high)
    IN  {<<>>, <<a>>, <<a, b>>}

OrganicFrames == {<<>>} \cup { <<MakeOrganicRow(m)>> : m \in MetricProfiles }

LandingFrames == {<<>>, <<LandingRow>>}

\* The DataFrames the two functions are called on when they are checked on
\* their own: with all the columns, with no column, without the dimensions
\* (Organic Search) and without some of the metrics (landing pages)
CallFrames == TrafficFrames \cup OrganicFrames \cup LandingFrames

\* What a fetch returns: None when the request raised, the DataFrame otherwise
FetchResult(raised, df) == IF raised THEN None ELSE df

\* A variable of main() that has not been assigned yet
Unbound == "unbound"

\* How the fetch of a DataFrame ended, as the event log records it
Outcome(df) ==
    IF df = None THEN "None" ELSE IF Len(df) = 0 THEN "empty" ELSE "rows"

\* The tie orders a build of numpy may give the unstable sort: rows of equal
\* sessions_current kept in index order, or in the reverse of it
Builds == {"ties_in_index_order", "ties_reversed"}

\* The DataFrames of the main() of the two other scripts, by the name of the
\* variable, each None, "empty" or "rows" once its fetch has returned
NoFrames ==
    [df_bemol_web |-> Unbound, df_bemol_app |-> Unbound,
     df_bemol_farma |-> Unbound, df_app |-> Unbound]

\* What the token file may hold: nothing (no file), credentials that are
\* valid, expired with a refresh token, or neither valid nor refreshable, or
\* bytes pickle cannot load
TokenStates == {"absent", "valid", "expired", "stale", "corrupt"}

\* alert_class: the class of the alert box of the HTML report of main.py;
\* workbook: the sheets of the workbook the collector has written
VARIABLES df_current, df_previous, pc, metrics,
          comparison_device, comparison_source,
          build, again, collected, token_file,
          client_secret_file, client,
          df_organic_search_current, df_organic_search_previous,
          landing_current, landing_previous,
          organic_search_metrics, events,
          alert_class, workbook

vars == <<df_current, df_previous, pc, metrics,
          comparison_device, comparison_source,
          build, again, collected, token_file,
          client_secret_file, client,
          df_organic_search_current, df_organic_search_previous,
          landing_current, landing_previous,
          organic_search_metrics, events,
          alert_class, workbook>>

---------------------------------------------------------------------------
\* calculate_comparison_metrics

RECURSIVE SumFrom(_, _, _)
SumFrom(df, col, i) ==
    IF i > Len(df) THEN Num(0) ELSE RAdd(df[i][col], SumFrom(df, col, i + 1))

\* df[col].sum()
ColumnSum(df, col) == SumFrom(df, col, 1)

\* Mutant: the averaged metrics summed like the others
ColumnMean_AsSum(df, col) == ColumnSum(df, col)

\* df[col].mean()
ColumnMean(df, col) == RDiv(ColumnSum(df, col), Num(Len(df)))

Totals(df) ==
    [k \in MetricKeys |->
        IF k \in SummableKeys THEN ColumnSum(df, k) ELSE ColumnMean(df, k)]

\* Mutant: a zero previous value replaced by 1, as analyze_by_dimension does
Variation_ZeroAsOne(current_val, previous_val) ==
    IF RGt(previous_val, Num(0))
    THEN RMul(RDiv(RSub(current_val, previous_val), previous_val), Num(100))
    ELSE RMul(RSub(current_val, previous_val), Num(100))

\* Mutant: the sentinel 100 for every non-positive previous value
Variation_AlwaysSentinel(current_val, previous_val) ==
    IF RGt(previous_val, Num(0))
    THEN RMul(RDiv(RSub(current_val, previous_val), previous_val), Num(100))
    ELSE Num(100)

\* Mutant: the percentage rounded down to a whole number
Variation_Rounded(current_val, previous_val) ==
    IF RGt(previous_val, Num(0))
    THEN RFloor(RMul(RDiv(RSub(current_val, previous_val), previous_val), Num(100)))
    ELSE IF current_val = Num(0) THEN Num(0) ELSE Num(100)

Variation(current_val, previous_val) ==
    IF RGt(previous_val, Num(0))
    THEN RMul(RDiv(RSub(current_val, previous_val), previous_val), Num(100))
    ELSE IF current_val = Num(0) THEN Num(0) ELSE Num(100)

\* Mutant: the magnitude of the difference
VariationAbs_Magnitude(current_val, previous_val) ==
    LET d == RSub(current_val, previous_val) IN <<Abs(d[1]), d[2]>>

VariationAbs(current_val, previous_val) == RSub(current_val, previous_val)

MetricsRaises(df_c, df_p) ==
    \E k \in MetricKeys : k \notin Columns(df_c) \/ k \notin Columns(df_p)

calculate_comparison_metrics(df_c, df_p) ==
    LET current_totals == Totals(df_c)
        previous_totals == Totals(df_p)
    IN  [key \in DOMAIN current_totals |->
            [current |-> current_totals[key],
             previous |-> previous_totals[key],
             variation |-> Variation(current_totals[key], previous_totals[key]),
             variation_abs |->
                 VariationAbs(current_totals[key], previous_totals[key])]]

---------------------------------------------------------------------------
\* analyze_by_dimension

NaN == "NaN"
AggKeys == {"sessions", "users", "revenue"}

\* The distinct values of a dimension in a DataFrame (the groups of groupby)
GroupKeys(df, dimension) == { df[i][dimension] : i \in 1..Len(df) }

\* Mutant: the column summed over all rows, whatever their group
GroupSumFrom_AllRows(df, dimension, key, col, i) == ColumnSum(df, col)

RECURSIVE GroupSumFrom(_, _, _, _, _)
GroupSumFrom(df, dimension, key, col, i) ==
    IF i > Len(df) THEN Num(0)
    ELSE LET rest == GroupSumFrom(df, dimension, key, col, i + 1)
         IN  IF df[i][dimension] = key THEN RAdd(df[i][col], rest) ELSE rest

\* df.groupby(dimension).agg({'sessions': 'sum', 'users': 'sum', 'revenue': 'sum'})
GroupByAgg(df, dimension) ==
    [key \in GroupKeys(df, dimension) |->
        [col \in AggKeys |-> GroupSumFrom(df, dimension, key, col, 1)]]

\* Mutant: a left join, which keeps the keys of the current period only
JoinKeys_Left(current_agg, previous_agg) == DOMAIN current_agg

\* The keys of an outer join: the union of both indexes
JoinKeys(current_agg, previous_agg) == DOMAIN current_agg \cup DOMAIN previous_agg

\* .fillna(0)
FillNa(v) == IF v = NaN THEN Num(0) ELSE v

\* One row of current_agg.join(previous_agg, how='outer').fillna(0)
JoinedRow(current_agg, previous_agg, key) ==
    LET cur(col) == IF key \in DOMAIN current_agg THEN current_agg[key][col] ELSE NaN
        prev(col) == IF key \in DOMAIN previous_agg THEN previous_agg[key][col] ELSE NaN
    IN  [key |-> key,
         sessions_current |-> FillNa(cur("sessions")),
         users_current |-> FillNa(cur("users")),
         revenue_current |-> FillNa(cur("revenue")),
         sessions_previous |-> FillNa(prev("sessions")),
         users_previous |-> FillNa(prev("users")),
         revenue_previous |-> FillNa(prev("revenue"))]

\* series.replace(0, 1)
Replace01(v) == IF v = Num(0) THEN Num(1) ELSE v

\* Mutant: the 0 / 100 sentinels of calculate_comparison_metrics
VarPct_Sentinel(current_val, previous_val) == Variation(current_val, previous_val)

\* (current - previous) / previous.replace(0, 1) * 100
VarPct(current_val, previous_val) ==
    RMul(RDiv(RSub(current_val, previous_val), Replace01(previous_val)), Num(100))

\* The three 'X_var_%' columns (named X_var_pct here)
WithVariations(r) ==
    [key |-> r.key,
     sessions_current |-> r.sessions_current,
     users_current |-> r.users_current,
     revenue_current |-> r.revenue_current,
     sessions_previous |-> r.sessions_previous,
     users_previous |-> r.users_previous,
     revenue_previous |-> r.revenue_previous,
     sessions_var_pct |-> VarPct(r.sessions_current, r.sessions_previous),
     users_var_pct |-> VarPct(r.users_current, r.users_previous),
     revenue_var_pct |-> VarPct(r.revenue_current, r.revenue_previous)]

\* The rows of a keyed table in ascending order of the key: an outer join
\* returns its index sorted
RECURSIVE IndexOrder(_)
IndexOrder(keys) ==
    IF keys = {} THEN <<>>
    ELSE LET k == CHOOSE x \in keys : \A y \in keys : Rank(x) <= Rank(y)
         IN  <<k>> \o IndexOrder(keys \ {k})

\* The table before the sort, in index order
Comparison(df_c, df_p, dimension) ==
    LET current_agg == GroupByAgg(df_c, dimension)
        previous_agg == GroupByAgg(df_p, dimension)
        index == IndexOrder(JoinKeys(current_agg, previous_agg))
    IN  [i \in 1..Len(index) |->
            WithVariations(JoinedRow(current_agg, previous_agg, index[i]))]

\* The orders sort_values('sessions_current', ascending=False) may return.
\* The default kind is 'quicksort', which is not stable: rows with equal
\* sessions_current come out in an order that depends on the numpy build.
SortOrderOk(table, perm) ==
    \A i, j \in 1..Len(perm) :
        i < j => RGe(table[perm[i]].sessions_current, table[perm[j]].sessions_current)

SortValues(table) ==
    LET n == Len(table)
        perms == { p \in [1..n -> 1..n] : \A i, j \in 1..n : i # j => p[i] # p[j] }
    IN  { [i \in 1..n |-> table[p[i]]] : p \in { q \in perms : SortOrderOk(table, q) } }

AnalyzeRaises(df_c, df_p, dimension) ==
    \E col \in AggKeys \cup {dimension} :
        col \notin Columns(df_c) \/ col \notin Columns(df_p)

\* The tie order of the build: of two rows of equal sessions_current, which
\* one comes first
TieOrderOk(table, perm) ==
    \A i, j \in 1..Len(perm) :
        (i < j /\ table[perm[i]].sessions_current = table[perm[j]].sessions_current)
            => IF build = "ties_in_index_order"
               THEN perm[i] < perm[j]
               ELSE perm[i] > perm[j]

\* sort_values('sessions_current', ascending=False) in the build of the run:
\* the sort is a fixed algorithm, so one table always comes out the same way
sort_values(table) ==
    LET n == Len(table)
        perms == { p \in [1..n -> 1..n] : \A i, j \in 1..n : i # j => p[i] # p[j] }
        p == CHOOSE q \in perms : SortOrderOk(table, q) /\ TieOrderOk(table, q)
    IN  [i \in 1..n |-> table[p[i]]]

analyze_by_dimension(df_c, df_p, dimension) ==
    sort_values(Comparison(df_c, df_p, dimension))

---------------------------------------------------------------------------
\* main(): authentication, the six fetches, the analysis, the two reports

\* One entry of the log of what a run has done to the outside world
\* (detail: the period of a fetch, or how the OAuth flow ended; result: what
\* the step returned, raised or found)
Event(op, detail, result) == [op |-> op, detail |-> detail, result |-> result]

\* The dictionary main() uses when a period of Organic Search has no data
EmptyOrganicMetrics ==
    [key \in MetricKeys |->
        [current |-> Num(0), previous |-> Num(0),
         variation |-> Num(0), variation_abs |-> Num(0)]]

\* The analysis entered with two DataFrames in hand
Init ==
    /\ df_current \in DataFrames
    /\ df_previous \in DataFrames
    /\ build \in Builds
    /\ collected = NoFrames
    /\ token_file = "absent"
    /\ pc = "metrics"
    /\ metrics = None
    /\ comparison_device = None
    /\ comparison_source = None
    /\ again = None
    /\ client_secret_file = TRUE
    /\ client = "client"
    /\ df_organic_search_current = <<>>
    /\ df_organic_search_previous = <<>>
    /\ landing_current = <<>>
    /\ landing_previous = <<>>
    /\ organic_search_metrics = None
    /\ events = <<>>
    /\ alert_class = None
    /\ workbook = {}

\* The start of main()
MainInit ==
    /\ df_current = Unbound
    /\ df_previous = Unbound
    /\ build \in Builds
    /\ collected = NoFrames
    /\ token_file = "absent"
    /\ pc = "start"
    /\ metrics = None
    /\ comparison_device = None
    /\ comparison_source = None
    /\ again = None
    /\ client_secret_file \in BOOLEAN
    /\ client = Unbound
    /\ df_organic_search_current = Unbound
    /\ df_organic_search_previous = Unbound
    /\ landing_current = Unbound
    /\ landing_previous = Unbound
    /\ organic_search_metrics = None
    /\ events = <<>>
    /\ alert_class = None
    /\ workbook = {}

\* main() looks for the client-secret file before anything else
CheckClientSecret ==
    /\ pc = "start"
    /\ pc' = IF client_secret_file THEN "authenticate" ELSE "returned"
    /\ UNCHANGED <<df_current, df_previous, metrics, comparison_device,
                   comparison_source, build, again, alert_class, workbook, collected, token_file, client_secret_file, client,
                   df_organic_search_current, df_organic_search_previous,
                   landing_current, landing_previous, organic_search_metrics,
                   events>>

\* The file is removed between the check of main() and that of
\* authenticate_ga4(), the only moment at which its removal changes the run
DeleteClientSecret ==
    /\ pc = "authenticate"
    /\ client_secret_file
    /\ client_secret_file' = FALSE
    /\ UNCHANGED <<df_current, df_previous, pc, metrics, comparison_device,
                   comparison_source, build, again, alert_class, workbook, collected, token_file, client,
                   df_organic_search_current, df_organic_search_previous,
                   landing_current, landing_previous, organic_search_metrics,
                   events>>

\* How the OAuth flow (from_client_secrets_file, run_local_server, the client
\* constructor) may end.  KeyboardInterrupt is not an Exception.
FlowOutcomes == {"credentials", "Exception", "KeyboardInterrupt"}

\* Mutant: the except clause re-raises what the flow raised
authenticate_ga4_Reraises(flow) ==
    IF ~client_secret_file THEN None
    ELSE IF flow = "credentials" THEN "client"
    ELSE flow

\* authenticate_ga4(): the client, None, or the name of what it raises
authenticate_ga4(flow) ==
    IF ~client_secret_file THEN None
    ELSE IF flow = "credentials" THEN "client"
    ELSE IF flow = "Exception" THEN None
    ELSE "KeyboardInterrupt"

\* client = authenticate_ga4(); if not client: return.  What the function
\* raises leaves main() through its own except clause.
Authenticate ==
    /\ pc = "authenticate"
    /\ \E flow \in FlowOutcomes :
         LET result == authenticate_ga4(flow)
             ended == IF client_secret_file THEN flow ELSE "not started"
         IN  /\ events' = Append(events, Event("authenticate_ga4", ended, result))
             /\ IF result \in {"KeyboardInterrupt", "Exception"}
                THEN /\ pc' = result
                     /\ client' = client
                ELSE /\ client' = result
                     /\ pc' = IF result = None THEN "returned"
                              ELSE "fetch_traffic_current"
    /\ UNCHANGED <<df_current, df_previous, metrics, comparison_device,
                   comparison_source, build, again, alert_class, workbook, collected, token_file, client_secret_file,
                   df_organic_search_current, df_organic_search_previous,
                   landing_current, landing_previous, organic_search_metrics>>

FetchTrafficCurrent ==
    /\ pc = "fetch_traffic_current"
    /\ \E raised \in BOOLEAN, df \in TrafficFrames :
         LET result == FetchResult(raised, df) IN
         /\ df_current' = result
         /\ events' = Append(events,
                Event("fetch_organic_traffic_data", "Atual", Outcome(result)))
    /\ pc' = "fetch_organic_current"
    /\ UNCHANGED <<df_previous, metrics, comparison_device, comparison_source,
                   build, again, alert_class, workbook, collected, token_file, client_secret_file, client,
                   df_organic_search_current, df_organic_search_previous,
                   landing_current, landing_previous, organic_search_metrics>>

FetchOrganicCurrent ==
    /\ pc = "fetch_organic_current"
    /\ \E raised \in BOOLEAN, df \in OrganicFrames :
         LET result == FetchResult(raised, df) IN
         /\ df_organic_search_current' = result
         /\ events' = Append(events,
                Event("fetch_organic_search_data", "Atual", Outcome(result)))
    /\ pc' = "fetch_landing_current"
    /\ UNCHANGED <<df_current, df_previous, metrics, comparison_device,
                   comparison_source, build, again, alert_class, workbook, collected, token_file, client_secret_file, client,
                   df_organic_search_previous,
                   landing_current, landing_previous, organic_search_metrics>>

FetchLandingCurrent ==
    /\ pc = "fetch_landing_current"
    /\ \E raised \in BOOLEAN, df \in LandingFrames :
         LET result == FetchResult(raised, df) IN
         /\ landing_current' = result
         /\ events' = Append(events,
                Event("fetch_landing_pages", "Atual", Outcome(result)))
    /\ pc' = "fetch_traffic_previous"
    /\ UNCHANGED <<df_current, df_previous, metrics, comparison_device,
                   comparison_source, build, again, alert_class, workbook, collected, token_file, client_secret_file, client,
                   df_organic_search_current, df_organic_search_previous,
                   landing_previous, organic_search_metrics>>

FetchTrafficPrevious ==
    /\ pc = "fetch_traffic_previous"
    /\ \E raised \in BOOLEAN, df \in TrafficFrames :
         LET result == FetchResult(raised, df) IN
         /\ df_previous' = result
         /\ events' = Append(events,
                Event("fetch_organic_traffic_data", "Anterior", Outcome(result)))
    /\ pc' = "fetch_organic_previous"
    /\ UNCHANGED <<df_current, metrics, comparison_device, comparison_source,
                   build, again, alert_class, workbook, collected, token_file, client_secret_file, client,
                   df_organic_search_current, df_organic_search_previous,
                   landing_current, landing_previous, organic_search_metrics>>

FetchOrganicPrevious ==
    /\ pc = "fetch_organic_previous"
    /\ \E raised \in BOOLEAN, df \in OrganicFrames :
         LET result == FetchResult(raised, df) IN
         /\ df_organic_search_previous' = result
         /\ events' = Append(events,
                Event("fetch_organic_search_data", "Anterior", Outcome(result)))
    /\ pc' = "fetch_landing_previous"
    /\ UNCHANGED <<df_current, df_previous, metrics, comparison_device,
                   comparison_source, build, again, alert_class, workbook, collected, token_file, client_secret_file, client,
                   df_organic_search_current,
                   landing_current, landing_previous, organic_search_metrics>>

FetchLandingPrevious ==
    /\ pc = "fetch_landing_previous"
    /\ \E raised \in BOOLEAN, df \in LandingFrames :
         LET result == FetchResult(raised, df) IN
         /\ landing_previous' = result
         /\ events' = Append(events,
                Event("fetch_landing_pages", "Anterior", Outcome(result)))
    /\ pc' = "check"
    /\ UNCHANGED <<df_current, df_previous, metrics, comparison_device,
                   comparison_source, build, again, alert_class, workbook, collected, token_file, client_secret_file, client,
                   df_organic_search_current, df_organic_search_previous,
                   landing_current, organic_search_metrics>>

\* Mutant: the analysis entered whatever the fetches returned
CheckData_IgnoresNone ==
    /\ pc = "check"
    /\ pc' = "metrics"
    /\ IF df_organic_search_current = None \/ df_organic_search_previous = None
       THEN /\ df_organic_search_current' = <<>>
            /\ df_organic_search_previous' = <<>>
       ELSE UNCHANGED <<df_organic_search_current, df_organic_search_previous>>
    /\ UNCHANGED <<df_current, df_previous, metrics, comparison_device,
                   comparison_source, build, again, alert_class, workbook, collected, token_file, client_secret_file, client,
                   landing_current, landing_previous, organic_search_metrics,
                   events>>

\* Mutant: a failed Organic Search fetch ends the run like a failed traffic fetch
CheckData_OrganicFatal ==
    /\ pc = "check"
    /\ pc' = IF \/ df_current = None \/ df_previous = None
                \/ df_organic_search_current = None
                \/ df_organic_search_previous = None
             THEN "returned" ELSE "metrics"
    /\ UNCHANGED <<df_current, df_previous, metrics, comparison_device,
                   comparison_source, build, again, alert_class, workbook, collected, token_file, client_secret_file, client,
                   df_organic_search_current, df_organic_search_previous,
                   landing_current, landing_previous, organic_search_metrics,
                   events>>

\* Mutant: main() gives up only when both periods failed
CheckData_BothNone ==
    /\ pc = "check"
    /\ IF df_current = None /\ df_previous = None
       THEN /\ pc' = "returned"
            /\ UNCHANGED <<df_organic_search_current, df_organic_search_previous>>
       ELSE /\ pc' = "metrics"
            /\ IF df_organic_search_current = None \/ df_organic_search_previous = None
               THEN /\ df_organic_search_current' = <<>>
                    /\ df_organic_search_previous' = <<>>
               ELSE UNCHANGED <<df_organic_search_current, df_organic_search_previous>>
    /\ UNCHANGED <<df_current, df_previous, metrics, comparison_device,
                   comparison_source, build, again, alert_class, workbook, collected, token_file, client_secret_file, client,
                   landing_current, landing_previous, organic_search_metrics,
                   events>>

\* "Verificar se há dados": main() returns when a traffic fetch gave None,
\* replaces both Organic Search DataFrames by empty ones when one of them is
\* None, and only warns when a traffic DataFrame has no rows
CheckData ==
    /\ pc = "check"
    /\ IF df_current = None \/ df_previous = None
       THEN /\ pc' = "returned"
            /\ UNCHANGED <<df_organic_search_current, df_organic_search_previous>>
       ELSE /\ pc' = "metrics"
            /\ IF df_organic_search_current = None \/ df_organic_search_previous = None
               THEN /\ df_organic_search_current' = <<>>
                    /\ df_organic_search_previous' = <<>>
               ELSE UNCHANGED <<df_organic_search_current, df_organic_search_previous>>
    /\ UNCHANGED <<df_current, df_previous, metrics, comparison_device,
                   comparison_source, build, again, alert_class, workbook, collected, token_file, client_secret_file, client,
                   landing_current, landing_previous, organic_search_metrics,
                   events>>

\* The Organic Search metrics of main(): computed when both periods have
\* rows, the all-zero dictionary otherwise
OrganicSearchMetrics(df_c, df_p) ==
    IF Len(df_c) # 0 /\ Len(df_p) # 0
    THEN calculate_comparison_metrics(df_c, df_p)
    ELSE EmptyOrganicMetrics

\* Mutant: a metric missing from a period counted as 0 for every metric
CompareMetrics_DefaultsMissing ==
    /\ pc = "metrics"
    /\ pc' = "device"
    /\ metrics' = IF MetricsRaises(df_current, df_previous)
                  THEN [key \in MetricKeys |->
                           [current |-> Num(0), previous |-> Num(0),
                            variation |-> Num(0), variation_abs |-> Num(0)]]
                  ELSE calculate_comparison_metrics(df_current, df_previous)
    /\ UNCHANGED <<df_current, df_previous, comparison_device, comparison_source,
                   build, again, alert_class, workbook, collected, token_file, client_secret_file, client,
                   df_organic_search_current, df_organic_search_previous,
                   landing_current, landing_previous, organic_search_metrics,
                   events>>

\* metrics = calculate_comparison_metrics(df_current, df_previous), then the
\* Organic Search metrics.  A None in the place of a DataFrame is a TypeError.
CompareMetrics ==
    /\ pc = "metrics"
    /\ IF df_current = None \/ df_previous = None
       THEN /\ pc' = "TypeError"
            /\ UNCHANGED <<metrics, organic_search_metrics>>
       ELSE IF MetricsRaises(df_current, df_previous)
       THEN /\ pc' = KeyError
            /\ UNCHANGED <<metrics, organic_search_metrics>>
       ELSE /\ pc' = "device"
            /\ metrics' = calculate_comparison_metrics(df_current, df_previous)
            /\ organic_search_metrics' =
                   OrganicSearchMetrics(df_organic_search_current,
                                        df_organic_search_previous)
    /\ UNCHANGED <<df_current, df_previous, comparison_device, comparison_source,
                   build, again, alert_class, workbook, collected, token_file, client_secret_file, client,
                   df_organic_search_current, df_organic_search_previous,
                   landing_current, landing_previous, events>>

\* Mutant: the rows of the current period sorted in place before the grouping
AnalyzeDevice_SortsInPlace ==
    /\ pc = "device"
    /\ IF AnalyzeRaises(df_current, df_previous, "device")
       THEN /\ pc' = KeyError
            /\ UNCHANGED <<comparison_device, df_current>>
       ELSE /\ pc' = "source"
            /\ comparison_device' =
                   analyze_by_dimension(df_current, df_previous, "device")
            /\ df_current' =
                   LET n == Len(df_current)
                       perms == { p \in [1..n -> 1..n] :
                                     \A i, j \in 1..n : i # j => p[i] # p[j] }
                       p == CHOOSE q \in perms :
                                \A i, j \in 1..n :
                                    i < j => RGe(df_current[q[i]].sessions,
                                                 df_current[q[j]].sessions)
                   IN  [i \in 1..n |-> df_current[p[i]]]
    /\ UNCHANGED <<df_previous, metrics, comparison_source,
                   build, again, alert_class, workbook, collected, token_file, client_secret_file, client,
                   df_organic_search_current, df_organic_search_previous,
                   landing_current, landing_previous, organic_search_metrics,
                   events>>

\* Mutant: a previous period without the columns taken as a period of no rows
AnalyzeDevice_CurrentOnly ==
    /\ pc = "device"
    /\ IF \E col \in AggKeys \cup {"device"} : col \notin Columns(df_current)
       THEN /\ pc' = KeyError
            /\ comparison_device' = comparison_device
       ELSE /\ pc' = "source"
            /\ comparison_device' =
                   IF AnalyzeRaises(df_current, df_previous, "device")
                   THEN analyze_by_dimension(df_current, <<>>, "device")
                   ELSE analyze_by_dimension(df_current, df_previous, "device")
    /\ UNCHANGED <<df_current, df_previous, metrics, comparison_source,
                   build, again, alert_class, workbook, collected, token_file, client_secret_file, client,
                   df_organic_search_current, df_organic_search_previous,
                   landing_current, landing_previous, organic_search_metrics,
                   events>>

\* Mutant: the tie order picked afresh at every call
AnalyzeDevice_AnyTieOrder ==
    /\ pc = "device"
    /\ IF AnalyzeRaises(df_current, df_previous, "device")
       THEN /\ pc' = KeyError
            /\ comparison_device' = comparison_device
       ELSE /\ pc' = "source"
            /\ comparison_device' \in
                   SortValues(Comparison(df_current, df_previous, "device"))
    /\ UNCHANGED <<df_current, df_previous, metrics, comparison_source,
                   build, again, alert_class, workbook, collected, token_file, client_secret_file, client,
                   df_organic_search_current, df_organic_search_previous,
                   landing_current, landing_previous, organic_search_metrics,
                   events>>

\* comparison_device = analyze_by_dimension(df_current, df_previous, 'device')
AnalyzeDevice ==
    /\ pc = "device"
    /\ IF AnalyzeRaises(df_current, df_previous, "device")
       THEN /\ pc' = KeyError
            /\ comparison_device' = comparison_device
       ELSE /\ pc' = "source"
            /\ comparison_device' =
                   analyze_by_dimension(df_current, df_previous, "device")
    /\ UNCHANGED <<df_current, df_previous, metrics, comparison_source,
                   build, again, alert_class, workbook, collected, token_file, client_secret_file, client,
                   df_organic_search_current, df_organic_search_previous,
                   landing_current, landing_previous, organic_search_metrics,
                   events>>

\* comparison_source = analyze_by_dimension(df_current, df_previous, 'source_medium')
AnalyzeSource ==
    /\ pc = "source"
    /\ IF AnalyzeRaises(df_current, df_previous, "source_medium")
       THEN /\ pc' = KeyError
            /\ comparison_source' = comparison_source
       ELSE /\ pc' = "report"
            /\ comparison_source' =
                   analyze_by_dimension(df_current, df_previous, "source_medium")
    /\ UNCHANGED <<df_current, df_previous, metrics, comparison_device,
                   build, again, alert_class, workbook, collected, token_file, client_secret_file, client,
                   df_organic_search_current, df_organic_search_previous,
                   landing_current, landing_previous, organic_search_metrics,
                   events>>

\* Mutant: a fall of exactly 20% is already critical
AlertClass_CriticalFromTwenty(sessions_var) ==
    IF ~RGt(sessions_var, Num(-20)) THEN "alert-danger"
    ELSE IF RLt(sessions_var, Num(0)) THEN "alert-warning"
    ELSE "alert-success"

\* The class of the alert box of generate_html_report, from the variation of
\* the Organic Search sessions (a percentage)
AlertClass(sessions_var) ==
    IF RLt(sessions_var, Num(-20)) THEN "alert-danger"
    ELSE IF RLt(sessions_var, Num(0)) THEN "alert-warning"
    ELSE "alert-success"

\* generate_html_report(...) and the write of the HTML file.  The report only
\* reads its arguments; the file system is taken to accept the write.
WriteHtml ==
    /\ pc = "report"
    /\ alert_class' = AlertClass(organic_search_metrics["sessions"].variation)
    /\ events' = Append(events, Event("write_html", "", "written"))
    /\ pc' = "excel"
    /\ UNCHANGED <<df_current, df_previous, metrics, comparison_device,
                   comparison_source, build, again, workbook, collected, token_file, client_secret_file, client,
                   df_organic_search_current, df_organic_search_previous,
                   landing_current, landing_previous, organic_search_metrics>>

\* export_to_excel(...), which writes the DataFrames as they are
ExportExcel ==
    /\ pc = "excel"
    /\ events' = Append(events, Event("write_excel", "", "written"))
    /\ pc' = "done"
    /\ UNCHANGED <<df_current, df_previous, metrics, comparison_device,
                   comparison_source, build, again, alert_class, workbook, collected, token_file, client_secret_file, client,
                   df_organic_search_current, df_organic_search_previous,
                   landing_current, landing_previous, organic_search_metrics>>

\* The analysis of main(), from the totals to the two tables
Next == CompareMetrics \/ AnalyzeDevice \/ AnalyzeSource

Spec == Init /\ [][Next]_vars

\* The three calls of the analysis made a second time, on the same DataFrames
CallAgain ==
    /\ pc = "report"
    /\ again' =
           [metrics |-> calculate_comparison_metrics(df_current, df_previous),
            comparison_device |->
                analyze_by_dimension(df_current, df_previous, "device"),
            comparison_source |->
                analyze_by_dimension(df_current, df_previous, "source_medium")]
    /\ pc' = "called_again"
    /\ UNCHANGED <<df_current, df_previous, metrics, comparison_device,
                   comparison_source, build, alert_class, workbook, collected, token_file,
                   client_secret_file, client,
                   df_organic_search_current, df_organic_search_previous,
                   landing_current, landing_previous, organic_search_metrics,
                   events>>

TwiceNext == CompareMetrics \/ AnalyzeDevice \/ AnalyzeSource \/ CallAgain

\* The analysis, then the same calls once more
TwiceSpec == Init /\ [][TwiceNext]_vars

\* calculate_comparison_metrics and the two analyses called on DataFrames of
\* any of the shapes the fetches build
FunctionInit ==
    /\ df_current \in CallFrames
    /\ df_previous \in CallFrames
    /\ build \in Builds
    /\ collected = NoFrames
    /\ token_file = "absent"
    /\ pc = "metrics"
    /\ metrics = None
    /\ comparison_device = None
    /\ comparison_source = None
    /\ again = None
    /\ client_secret_file = TRUE
    /\ client = "client"
    /\ df_organic_search_current = <<>>
    /\ df_organic_search_previous = <<>>
    /\ landing_current = <<>>
    /\ landing_previous = <<>>
    /\ organic_search_metrics = None
    /\ events = <<>>
    /\ alert_class = None
    /\ workbook = {}

FunctionNext == CompareMetrics \/ AnalyzeDevice \/ AnalyzeSource

FunctionSpec == FunctionInit /\ [][FunctionNext]_vars

\* analyze_by_dimension called first, on DataFrames of any of the shapes
AnalyzeInit ==
    /\ df_current \in CallFrames
    /\ df_previous \in CallFrames
    /\ build \in Builds
    /\ collected = NoFrames
    /\ token_file = "absent"
    /\ pc = "device"
    /\ metrics = None
    /\ comparison_device = None
    /\ comparison_source = None
    /\ again = None
    /\ client_secret_file = TRUE
    /\ client = "client"
    /\ df_organic_search_current = <<>>
    /\ df_organic_search_previous = <<>>
    /\ landing_current = <<>>
    /\ landing_previous = <<>>
    /\ organic_search_metrics = None
    /\ events = <<>>
    /\ alert_class = None
    /\ workbook = {}

AnalyzeNext == AnalyzeDevice \/ AnalyzeSource

AnalyzeSpec == AnalyzeInit /\ [][AnalyzeNext]_vars

\* A run of main() that has reached the report: every fetch returned rows,
\* and the two periods of Organic Search have any number of sessions up to
\* MaxSessions
ReportInit ==
    \E current_sessions \in 0..MaxSessions, previous_sessions \in 0..MaxSessions :
      LET high == CHOOSE m \in MetricProfiles : m.sessions = Num(1)
          traffic == <<MakeRow(<<"google / organic", "desktop">>, high)>>
          organic(sessions) ==
              <<[MakeOrganicRow(high) EXCEPT !.sessions = Num(sessions)]>>
      IN  /\ df_current = traffic
          /\ df_previous = traffic
          /\ build \in Builds
          /\ collected = NoFrames
          /\ token_file = "absent"
          /\ pc = "report"
          /\ metrics = calculate_comparison_metrics(df_current, df_previous)
          /\ comparison_device =
                 analyze_by_dimension(df_current, df_previous, "device")
          /\ comparison_source =
                 analyze_by_dimension(df_current, df_previous, "source_medium")
          /\ again = None
          /\ client_secret_file = TRUE
          /\ client = "client"
          /\ df_organic_search_current = organic(current_sessions)
          /\ df_organic_search_previous = organic(previous_sessions)
          /\ landing_current = <<LandingRow>>
          /\ landing_previous = <<LandingRow>>
          /\ organic_search_metrics =
                 OrganicSearchMetrics(df_organic_search_current,
                                      df_organic_search_previous)
          /\ events =
                 <<Event("authenticate_ga4", "credentials", "client"),
                   Event("fetch_organic_traffic_data", "Atual", "rows"),
                   Event("fetch_organic_search_data", "Atual", "rows"),
                   Event("fetch_landing_pages", "Atual", "rows"),
                   Event("fetch_organic_traffic_data", "Anterior", "rows"),
                   Event("fetch_organic_search_data", "Anterior", "rows"),
                   Event("fetch_landing_pages", "Anterior", "rows")>>
          /\ alert_class = None
          /\ workbook = {}

ReportNext == WriteHtml \/ ExportExcel

\* The two reports of main(), written from the analysis of such a run
ReportSpec == ReportInit /\ [][ReportNext]_vars

---------------------------------------------------------------------------
\* ga4_complete_data_collector.py

\* authenticate_ga4() of the collector from "if not credentials:" on, when no
\* usable credentials are in hand: the client-secret file is looked for, the
\* login runs in the browser, and the credentials it gives are saved.
\* done: the steps taken before.
CollectorNewLogin(done, flow) ==
    IF ~client_secret_file
    THEN [client |-> None, token_file |-> token_file,
          steps |-> Append(done, Event("exists_client_secret", "", "missing"))]
    ELSE LET login == done \o <<Event("exists_client_secret", "", "found"),
                                 Event("run_local_server", "", flow)>>
         IN  IF flow = "credentials"
             THEN [client |-> "client", token_file |-> "valid",
                   steps |-> Append(login, Event("write_token", "", "written"))]
             ELSE [client |-> None, token_file |-> token_file, steps |-> login]

\* The token file read by pickle.load, when there is one
CollectorLoad ==
    IF token_file = "absent" THEN <<>>
    ELSE <<Event("load_token", "", token_file)>>

\* Mutant: the client-secret file is required whatever the credentials
collector_authenticate_ga4_SecretFirst(refresh, flow) ==
    IF token_file = "corrupt"
    THEN [client |-> None, token_file |-> token_file, steps |-> CollectorLoad]
    ELSE IF ~client_secret_file
    THEN [client |-> None, token_file |-> token_file,
          steps |-> Append(CollectorLoad,
                           Event("exists_client_secret", "", "missing"))]
    ELSE IF token_file = "valid"
    THEN [client |-> "client", token_file |-> token_file, steps |-> CollectorLoad]
    ELSE IF token_file = "expired"
    THEN LET renewed == Append(CollectorLoad, Event("refresh", "", refresh))
         IN  IF refresh = "refreshed"
             THEN [client |-> "client", token_file |-> token_file,
                   steps |-> renewed]
             ELSE CollectorNewLogin(renewed, flow)
    ELSE CollectorNewLogin(CollectorLoad, flow)

\* Mutant: a refresh that raises ends the authentication
collector_authenticate_ga4_RefreshIsFatal(refresh, flow) ==
    IF token_file = "corrupt"
    THEN [client |-> None, token_file |-> token_file, steps |-> CollectorLoad]
    ELSE IF token_file = "valid"
    THEN [client |-> "client", token_file |-> token_file, steps |-> CollectorLoad]
    ELSE IF token_file = "expired"
    THEN LET renewed == Append(CollectorLoad, Event("refresh", "", refresh))
         IN  IF refresh = "refreshed"
             THEN [client |-> "client", token_file |-> token_file,
                   steps |-> renewed]
             ELSE [client |-> None, token_file |-> token_file, steps |-> renewed]
    ELSE CollectorNewLogin(CollectorLoad, flow)

\* Mutant: refreshed credentials are saved as well
collector_authenticate_ga4_SavesRefreshed(refresh, flow) ==
    IF token_file = "corrupt"
    THEN [client |-> None, token_file |-> token_file, steps |-> CollectorLoad]
    ELSE IF token_file = "valid"
    THEN [client |-> "client", token_file |-> token_file, steps |-> CollectorLoad]
    ELSE IF token_file = "expired"
    THEN LET renewed == Append(CollectorLoad, Event("refresh", "", refresh))
         IN  IF refresh = "refreshed"
             THEN [client |-> "client", token_file |-> "valid",
                   steps |-> Append(renewed, Event("write_token", "", "written"))]
             ELSE CollectorNewLogin(renewed, flow)
    ELSE CollectorNewLogin(CollectorLoad, flow)

\* authenticate_ga4() of the collector: what it returns, what it leaves in
\* the token file, and the steps it takes.  Nothing it raises gets out: a
\* failed refresh falls back to a new login, a KeyboardInterrupt in the
\* login and any Exception anywhere give None.
collector_authenticate_ga4(refresh, flow) ==
    IF token_file = "corrupt"
    THEN [client |-> None, token_file |-> token_file, steps |-> CollectorLoad]
    ELSE IF token_file = "valid"
    THEN [client |-> "client", token_file |-> token_file, steps |-> CollectorLoad]
    ELSE IF token_file = "expired"
    THEN LET renewed == Append(CollectorLoad, Event("refresh", "", refresh))
         IN  IF refresh = "refreshed"
             THEN [client |-> "client", token_file |-> token_file,
                   steps |-> renewed]
             ELSE CollectorNewLogin(renewed, flow)
    ELSE CollectorNewLogin(CollectorLoad, flow)

\* Mutant: main() of the collector goes on without a client
CollectorAuthenticate_GoesOn ==
    /\ pc = "collector_start"
    /\ \E refresh \in {"refreshed", "Exception"}, flow \in FlowOutcomes :
         LET r == collector_authenticate_ga4(refresh, flow) IN
         /\ client' = r.client
         /\ token_file' = r.token_file
         /\ events' = events \o r.steps
                        \o <<Event("authenticate_ga4", "", r.client)>>
    /\ pc' = "collector_fetch_web"
    /\ UNCHANGED <<df_current, df_previous, metrics, comparison_device,
                   comparison_source, build, again, alert_class, workbook, collected,
                   client_secret_file,
                   df_organic_search_current, df_organic_search_previous,
                   landing_current, landing_previous, organic_search_metrics>>

\* client = authenticate_ga4(); if not client: return
CollectorAuthenticate ==
    /\ pc = "collector_start"
    /\ \E refresh \in {"refreshed", "Exception"}, flow \in FlowOutcomes :
         LET r == collector_authenticate_ga4(refresh, flow) IN
         /\ client' = r.client
         /\ token_file' = r.token_file
         /\ events' = events \o r.steps
                        \o <<Event("authenticate_ga4", "", r.client)>>
         /\ pc' = IF r.client = None THEN "returned" ELSE "collector_fetch_web"
    /\ UNCHANGED <<df_current, df_previous, metrics, comparison_device,
                   comparison_source, build, again, alert_class, workbook, collected,
                   client_secret_file,
                   df_organic_search_current, df_organic_search_previous,
                   landing_current, landing_previous, organic_search_metrics>>

\* What a fetch of the collector returns: None when the request raised, a
\* DataFrame with or without rows otherwise
CollectorResults == {None, "empty", "rows"}

\* Mutant: a failed fetch of Bemol (web) ends the run
CollectorFetchWeb_StopsOnNone ==
    /\ pc = "collector_fetch_web"
    /\ \E result \in CollectorResults :
         /\ collected' = [collected EXCEPT !.df_bemol_web = result]
         /\ events' = Append(events, Event("fetch_bemol_web_data", "", result))
         /\ pc' = IF result = None THEN "returned" ELSE "collector_fetch_app"
    /\ UNCHANGED <<df_current, df_previous, metrics, comparison_device,
                   comparison_source, build, again, alert_class, workbook, token_file,
                   client_secret_file, client,
                   df_organic_search_current, df_organic_search_previous,
                   landing_current, landing_previous, organic_search_metrics>>

\* df_bemol_web = fetch_bemol_web_data(...)
CollectorFetchWeb ==
    /\ pc = "collector_fetch_web"
    /\ \E result \in CollectorResults :
         /\ collected' = [collected EXCEPT !.df_bemol_web = result]
         /\ events' = Append(events, Event("fetch_bemol_web_data", "", result))
    /\ pc' = "collector_fetch_app"
    /\ UNCHANGED <<df_current, df_previous, metrics, comparison_device,
                   comparison_source, build, again, alert_class, workbook, token_file,
                   client_secret_file, client,
                   df_organic_search_current, df_organic_search_previous,
                   landing_current, landing_previous, organic_search_metrics>>

CollectorFetchApp ==
    /\ pc = "collector_fetch_app"
    /\ \E result \in CollectorResults :
         /\ collected' = [collected EXCEPT !.df_bemol_app = result]
         /\ events' = Append(events, Event("fetch_bemol_app_data", "", result))
    /\ pc' = "collector_fetch_farma"
    /\ UNCHANGED <<df_current, df_previous, metrics, comparison_device,
                   comparison_source, build, again, alert_class, workbook, token_file,
                   client_secret_file, client,
                   df_organic_search_current, df_organic_search_previous,
                   landing_current, landing_previous, organic_search_metrics>>

CollectorFetchFarma ==
    /\ pc = "collector_fetch_farma"
    /\ \E result \in CollectorResults :
         /\ collected' = [collected EXCEPT !.df_bemol_farma = result]
         /\ events' = Append(events, Event("fetch_bemol_farma_data", "", result))
    /\ pc' = "collector_export"
    /\ UNCHANGED <<df_current, df_previous, metrics, comparison_device,
                   comparison_source, build, again, alert_class, workbook, token_file,
                   client_secret_file, client,
                   df_organic_search_current, df_organic_search_previous,
                   landing_current, landing_previous, organic_search_metrics>>

\* The sheet export_to_excel writes each DataFrame to
CollectorSheetOf ==
    [df_bemol_web |-> "Bemol (web)", df_bemol_app |-> "Bemol (App)",
     df_bemol_farma |-> "Bemol Farma"]

\* Mutant: a sheet for every DataFrame that is not None, empty or not
CollectorSheets_NotNone ==
    { CollectorSheetOf[name] :
        name \in { n \in DOMAIN CollectorSheetOf : collected[n] # None } }

\* The sheets export_to_excel writes: one for each DataFrame that is not None
\* and not empty
CollectorSheets ==
    { CollectorSheetOf[name] :
        name \in { n \in DOMAIN CollectorSheetOf : collected[n] = "rows" } }

\* excel_path = export_to_excel(df_bemol_web, df_bemol_app, df_bemol_farma);
\* a workbook of no sheet cannot be saved, which the function catches
CollectorExport ==
    /\ pc = "collector_export"
    /\ workbook' = CollectorSheets
    /\ events' = Append(events,
           Event("write_excel", "",
                 IF CollectorSheets = {} THEN "failed" ELSE "written"))
    /\ pc' = "done"
    /\ UNCHANGED <<df_current, df_previous, metrics, comparison_device,
                   comparison_source, build, again, alert_class, collected, token_file,
                   client_secret_file, client,
                   df_organic_search_current, df_organic_search_previous,
                   landing_current, landing_previous, organic_search_metrics>>

\* The start of main() of the collector, with whatever the token file holds
\* and the client-secret file there or not
CollectorInit ==
    /\ pc = "collector_start"
    /\ token_file \in TokenStates
    /\ client_secret_file \in BOOLEAN
    /\ collected = NoFrames
    /\ df_current = Unbound
    /\ df_previous = Unbound
    /\ build \in Builds
    /\ metrics = None
    /\ comparison_device = None
    /\ comparison_source = None
    /\ again = None
    /\ client = Unbound
    /\ df_organic_search_current = Unbound
    /\ df_organic_search_previous = Unbound
    /\ landing_current = Unbound
    /\ landing_previous = Unbound
    /\ organic_search_metrics = None
    /\ events = <<>>
    /\ alert_class = None
    /\ workbook = {}

CollectorNext ==
    \/ CollectorAuthenticate
    \/ CollectorFetchWeb \/ CollectorFetchApp \/ CollectorFetchFarma
    \/ CollectorExport

\* A whole run of the collector
CollectorSpec == CollectorInit /\ [][CollectorNext]_vars

---------------------------------------------------------------------------
\* filtro_app_2025.py

\* authenticate_ga4() of the filter script, which has no try: the client, or
\* the name of what it raises (the refresh of expired credentials, the
\* missing client-secret file and the OAuth flow may all raise); the
\* credentials it refreshed or obtained are written to the token file
filtro_authenticate_ga4(refresh, flow) ==
    IF token_file = "corrupt" THEN [client |-> "Exception", token_file |-> token_file]
    ELSE IF token_file = "valid" THEN [client |-> "client", token_file |-> token_file]
    ELSE IF token_file = "expired"
    THEN IF refresh = "refreshed"
         THEN [client |-> "client", token_file |-> "valid"]
         ELSE [client |-> "Exception", token_file |-> token_file]
    ELSE IF ~client_secret_file THEN [client |-> "Exception", token_file |-> token_file]
    ELSE IF flow = "credentials" THEN [client |-> "client", token_file |-> "valid"]
    ELSE [client |-> flow, token_file |-> token_file]

\* client = authenticate_ga4(), inside the try of main()
FiltroAuthenticate ==
    /\ pc = "filtro_start"
    /\ \E refresh \in {"refreshed", "Exception"}, flow \in FlowOutcomes :
         LET r == filtro_authenticate_ga4(refresh, flow) IN
         /\ token_file' = r.token_file
         /\ events' = Append(events, Event("authenticate_ga4", "", r.client))
         /\ IF r.client = "client"
            THEN /\ client' = r.client
                 /\ pc' = "filtro_fetch"
            ELSE /\ client' = client
                 /\ pc' = r.client
    /\ UNCHANGED <<df_current, df_previous, metrics, comparison_device,
                   comparison_source, build, again, alert_class, workbook, collected,
                   client_secret_file,
                   df_organic_search_current, df_organic_search_previous,
                   landing_current, landing_previous, organic_search_metrics>>

\* df_app = fetch_app_data_2025(client): the function re-raises what the
\* request raises, and a response of no rows makes it raise a KeyError on
\* the month column of a DataFrame that has none
FiltroFetch ==
    /\ pc = "filtro_fetch"
    /\ \E response \in {"Exception", "empty", "rows"} :
         IF response = "rows"
         THEN /\ collected' = [collected EXCEPT !.df_app = "rows"]
              /\ events' = Append(events, Event("fetch_app_data_2025", "", "rows"))
              /\ pc' = "filtro_export"
         ELSE /\ collected' = collected
              /\ events' = Append(events,
                     Event("fetch_app_data_2025", "",
                           IF response = "empty" THEN KeyError ELSE "Exception"))
              /\ pc' = IF response = "empty" THEN KeyError ELSE "Exception"
    /\ UNCHANGED <<df_current, df_previous, metrics, comparison_device,
                   comparison_source, build, again, alert_class, workbook, token_file,
                   client_secret_file, client,
                   df_organic_search_current, df_organic_search_previous,
                   landing_current, landing_previous, organic_search_metrics>>

\* filepath = export_to_excel(df_app)
FiltroExport ==
    /\ pc = "filtro_export"
    /\ events' = Append(events, Event("write_excel", "", "written"))
    /\ pc' = "done"
    /\ UNCHANGED <<df_current, df_previous, metrics, comparison_device,
                   comparison_source, build, again, alert_class, workbook, collected, token_file,
                   client_secret_file, client,
                   df_organic_search_current, df_organic_search_previous,
                   landing_current, landing_previous, organic_search_metrics>>

---------------------------------------------------------------------------
\* The specifications of the runs

\* A whole run of main()
MainNext ==
    \/ CheckClientSecret \/ DeleteClientSecret \/ Authenticate
    \/ FetchTrafficCurrent \/ FetchOrganicCurrent \/ FetchLandingCurrent
    \/ FetchTrafficPrevious \/ FetchOrganicPrevious \/ FetchLandingPrevious
    \/ CheckData
    \/ CompareMetrics \/ AnalyzeDevice \/ AnalyzeSource
    \/ WriteHtml \/ ExportExcel

MainSpec == MainInit /\ [][MainNext]_vars

\* The start of one of the three scripts
ScriptsInit ==
    /\ pc \in {"start", "collector_start", "filtro_start"}
    /\ token_file \in (IF pc = "start" THEN {"absent"} ELSE TokenStates)
    /\ collected = NoFrames
    /\ df_current = Unbound
    /\ df_previous = Unbound
    /\ build \in Builds
    /\ metrics = None
    /\ comparison_device = None
    /\ comparison_source = None
    /\ again = None
    /\ client_secret_file \in BOOLEAN
    /\ client = Unbound
    /\ df_organic_search_current = Unbound
    /\ df_organic_search_previous = Unbound
    /\ landing_current = Unbound
    /\ landing_previous = Unbound
    /\ organic_search_metrics = None
    /\ events = <<>>
    /\ alert_class = None
    /\ workbook = {}

\* A whole run of any of the three scripts
ScriptsNext ==
    \/ CheckClientSecret \/ DeleteClientSecret \/ Authenticate
    \/ FetchTrafficCurrent \/ FetchOrganicCurrent \/ FetchLandingCurrent
    \/ FetchTrafficPrevious \/ FetchOrganicPrevious \/ FetchLandingPrevious
    \/ CheckData
    \/ CompareMetrics \/ AnalyzeDevice \/ AnalyzeSource
    \/ WriteHtml \/ ExportExcel
    \/ CollectorAuthenticate
    \/ CollectorFetchWeb \/ CollectorFetchApp \/ CollectorFetchFarma
    \/ CollectorExport
    \/ FiltroAuthenticate \/ FiltroFetch \/ FiltroExport

ScriptsSpec == ScriptsInit /\ [][ScriptsNext]_vars

---------------------------------------------------------------------------
\* Properties of calculate_comparison_metrics

\* calculate_comparison_metrics has returned its dictionary
MetricsReturned == pc \in {"device", "source", "report", "excel", "done"}

\* The total of a column over a period, read off the rows
RECURSIVE PeriodTotal(_, _)
PeriodTotal(rows, col) ==
    IF rows = <<>> THEN Num(0)
    ELSE RAdd(PeriodTotal(Tail(rows), col), Head(rows)[col])

\* C1: for every summable metric whose previous-period total is 0 and whose
\* current-period total is greater than 0, the reported percentage variation
\* is exactly 100, whatever the current total is.
C1_ZeroPreviousSentinel ==
    MetricsReturned =>
        \A k \in SummableKeys :
            ( /\ PeriodTotal(df_previous, k) = Num(0)
              /\ RGt(PeriodTotal(df_current, k), Num(0)) )
            => metrics[k].variation = Num(100)

\* A summable metric with previous total 0 and current total 2 reported as 100
C1_Witness ==
    /\ MetricsReturned
    /\ \E k \in SummableKeys :
        /\ PeriodTotal(df_previous, k) = Num(0)
        /\ PeriodTotal(df_current, k) = Num(2)
        /\ metrics[k].variation = Num(100)

\* C2: for every metric whose current-period value and previous-period value
\* are both 0, the reported percentage variation is 0.
C2_ZeroBothIdentity ==
    MetricsReturned =>
        \A k \in MetricKeys :
            (metrics[k].current = Num(0) /\ metrics[k].previous = Num(0))
            => metrics[k].variation = Num(0)

\* A summable and an averaged metric, both 0 in both periods, reported as 0
C2_Witness ==
    /\ MetricsReturned
    /\ PeriodTotal(df_current, "sessions") = Num(0)
    /\ PeriodTotal(df_previous, "sessions") = Num(0)
    /\ metrics["sessions"].variation = Num(0)
    /\ metrics["bounce_rate"].current = Num(0)
    /\ metrics["bounce_rate"].previous = Num(0)
    /\ metrics["bounce_rate"].variation = Num(0)

\* C3: for every metric whose previous-period value is greater than 0, the
\* percentage variation equals (current - previous) / previous * 100 exactly,
\* with no rounding: variation * previous = (current - previous) * 100.
C3_RatioWhenPreviousPositive ==
    MetricsReturned =>
        \A k \in MetricKeys :
            RGt(metrics[k].previous, Num(0))
            => RMul(metrics[k].variation, metrics[k].previous)
                 = RMul(RSub(metrics[k].current, metrics[k].previous), Num(100))

\* Two current rows (1 and 3 users) against one previous row (3 users):
\* current 4, previous 3, variation 100/3 (about 33.33)
C3_Witness ==
    /\ MetricsReturned
    /\ Len(df_current) = 2
    /\ Len(df_previous) = 1
    /\ metrics["users"].current = Num(4)
    /\ metrics["users"].previous = Num(3)
    /\ metrics["users"].variation = <<100, 3>>

\* C4: for every metric, the absolute variation equals the current value minus
\* the previous value exactly, also where the percentage is the sentinel 0 or
\* 100: variation_abs + previous = current.
C4_AbsoluteVariation ==
    MetricsReturned =>
        \A k \in MetricKeys :
            RAdd(metrics[k].variation_abs, metrics[k].previous) = metrics[k].current

\* A metric in the sentinel-100 branch (previous 0, current 2) whose absolute
\* variation is 2
C4_Witness ==
    /\ MetricsReturned
    /\ \E k \in MetricKeys :
        /\ metrics[k].previous = Num(0)
        /\ metrics[k].current = Num(2)
        /\ metrics[k].variation = Num(100)
        /\ metrics[k].variation_abs = Num(2)

\* C5: sessions, users, new_users, conversions and revenue are the sum over
\* all rows of the period, engagement_rate, bounce_rate and
\* avg_session_duration are the unweighted mean over all rows (mean * number
\* of rows = sum), and the output has exactly these eight keys.
C5_SumsAndMeans ==
    MetricsReturned =>
        /\ DOMAIN metrics =
              {"sessions", "users", "new_users", "conversions", "revenue",
               "engagement_rate", "bounce_rate", "avg_session_duration"}
        /\ \A k \in {"sessions", "users", "new_users", "conversions", "revenue"} :
              /\ metrics[k].current = PeriodTotal(df_current, k)
              /\ metrics[k].previous = PeriodTotal(df_previous, k)
        /\ \A k \in {"engagement_rate", "bounce_rate", "avg_session_duration"} :
              /\ RMul(metrics[k].current, Num(Len(df_current)))
                    = PeriodTotal(df_current, k)
              /\ RMul(metrics[k].previous, Num(Len(df_previous)))
                    = PeriodTotal(df_previous, k)

\* Rows with engagement rates 0.5 and 0.7 give 0.6, and their sessions add up
C5_Witness ==
    /\ MetricsReturned
    /\ Len(df_current) = 2
    /\ df_current[1].engagement_rate = <<1, 2>>
    /\ df_current[2].engagement_rate = <<7, 10>>
    /\ metrics["engagement_rate"].current = <<3, 5>>
    /\ metrics["sessions"].current = Num(1)
    /\ metrics["users"].current = Num(4)

---------------------------------------------------------------------------
\* Properties of analyze_by_dimension

\* analyze_by_dimension has returned the table of the dimension
DeviceReturned == pc \in {"source", "report", "excel", "done"}
SourceReturned == pc \in {"report", "excel", "done"}

\* The tables returned so far, each with its dimension
Returned ==
    (IF DeviceReturned
     THEN {[dimension |-> "device", table |-> comparison_device]} ELSE {})
    \cup
    (IF SourceReturned
     THEN {[dimension |-> "source_medium", table |-> comparison_source]} ELSE {})

\* The rows of a period that carry the value v of the dimension
RowsOf(df, dimension, v) == SelectSeq(df, LAMBDA row : row[dimension] = v)

Occurs(df, dimension, v) == \E i \in 1..Len(df) : df[i][dimension] = v

AllDimValues == { DimValues[i] : i \in 1..Len(DimValues) }

\* C6: the table has exactly one row for each distinct dimension value that
\* occurs in the current rows or in the previous rows, and no row for a value
\* that occurs in neither period.
C6_OuterJoinComplete ==
    \A t \in Returned :
        /\ \A i \in 1..Len(t.table) : t.table[i].key \in AllDimValues
        /\ \A v \in AllDimValues :
              Cardinality({ i \in 1..Len(t.table) : t.table[i].key = v })
                = IF \/ Occurs(df_current, t.dimension, v)
                     \/ Occurs(df_previous, t.dimension, v)
                  THEN 1 ELSE 0

\* A device table of two rows: one device seen only in the current period, in
\* two rows, and the other only in the previous period
C6_Witness ==
    /\ DeviceReturned
    /\ Len(df_current) = 2
    /\ \A i \in 1..Len(df_current) : df_current[i].device = "desktop"
    /\ \A i \in 1..Len(df_previous) : df_previous[i].device = "mobile"
    /\ Len(comparison_device) = 2

\* C7: a value present only in the current period gets every *_previous
\* metric equal to 0, a value present only in the previous period gets every
\* *_current metric equal to 0, and for a value present in a period the metric
\* equals the sum over that period's rows having that value.
C7_ZeroFillAndGroupSums ==
    \A t \in Returned :
        \A i \in 1..Len(t.table) :
            LET r == t.table[i]
                cur(col) == IF Occurs(df_current, t.dimension, r.key)
                            THEN PeriodTotal(RowsOf(df_current, t.dimension, r.key), col)
                            ELSE Num(0)
                prev(col) == IF Occurs(df_previous, t.dimension, r.key)
                             THEN PeriodTotal(RowsOf(df_previous, t.dimension, r.key), col)
                             ELSE Num(0)
            IN  /\ r.sessions_current = cur("sessions")
                /\ r.users_current = cur("users")
                /\ r.revenue_current = cur("revenue")
                /\ r.sessions_previous = prev("sessions")
                /\ r.users_previous = prev("users")
                /\ r.revenue_previous = prev("revenue")

\* A device new in the current period, with two rows of 1 session and 3
\* users each: sessions_current = 2, users_current = 6, every *_previous = 0
C7_Witness ==
    /\ DeviceReturned
    /\ \E i \in 1..Len(comparison_device) :
        LET r == comparison_device[i]
        IN  /\ ~Occurs(df_previous, "device", r.key)
            /\ Len(RowsOf(df_current, "device", r.key)) = 2
            /\ r.sessions_current = Num(2)
            /\ r.users_current = Num(6)
            /\ r.sessions_previous = Num(0)
            /\ r.users_previous = Num(0)
            /\ r.revenue_previous = Num(0)

\* The denominator of C8: previous when it is non-zero, 1 when it is 0
C8_Denominator(previous) == IF previous[1] = 0 THEN Num(1) ELSE previous

C8_Formula(var, current, previous) ==
    /\ RMul(var, C8_Denominator(previous)) = RMul(RSub(current, previous), Num(100))
    /\ (previous = Num(0) /\ current = Num(0)) => var = Num(0)
    /\ (previous = Num(0) /\ current # Num(0)) => var = RMul(current, Num(100))

\* C8: for each group and each of sessions, users and revenue, the percentage
\* variation equals (current - previous) / d * 100 where d is previous when
\* previous is non-zero and 1 when previous is 0; so 0 against 0 gives 0 and
\* a non-zero current against 0 gives current * 100, not 100.
C8_GroupVariation ==
    \A t \in Returned :
        \A i \in 1..Len(t.table) :
            LET r == t.table[i]
            IN  /\ C8_Formula(r.sessions_var_pct, r.sessions_current, r.sessions_previous)
                /\ C8_Formula(r.users_var_pct, r.users_current, r.users_previous)
                /\ C8_Formula(r.revenue_var_pct, r.revenue_current, r.revenue_previous)

\* A group with 2 current sessions against 0 reported as 200 %, with a
\* negative previous revenue as denominator, beside a group with 0 against 0
C8_Witness ==
    /\ DeviceReturned
    /\ \E i \in 1..Len(comparison_device) :
        /\ comparison_device[i].sessions_previous = Num(0)
        /\ comparison_device[i].sessions_current = Num(2)
        /\ comparison_device[i].sessions_var_pct = Num(200)
    /\ \E i \in 1..Len(comparison_device) :
        /\ comparison_device[i].sessions_previous = Num(0)
        /\ comparison_device[i].sessions_current = Num(0)
        /\ comparison_device[i].sessions_var_pct = Num(0)
    /\ \E i \in 1..Len(comparison_device) :
        /\ RGt(Num(0), comparison_device[i].revenue_previous)

---------------------------------------------------------------------------
\* The two variance formulas on the same pair of values

RowCurrent(r, k) ==
    CASE k = "sessions" -> r.sessions_current
      [] k = "users" -> r.users_current
      [] k = "revenue" -> r.revenue_current

RowPrevious(r, k) ==
    CASE k = "sessions" -> r.sessions_previous
      [] k = "users" -> r.users_previous
      [] k = "revenue" -> r.revenue_previous

RowVarPct(r, k) ==
    CASE k = "sessions" -> r.sessions_var_pct
      [] k = "users" -> r.users_var_pct
      [] k = "revenue" -> r.revenue_var_pct

\* The row r of a table carries, for metric k, the same (current, previous)
\* pair as the entry of k in the metrics dictionary
SamePair(r, k) ==
    /\ RowCurrent(r, k) = metrics[k].current
    /\ RowPrevious(r, k) = metrics[k].previous

\* C9 as claimed: for every pair with previous = 0 and current # 0 the two
\* percentages differ, and for every pair with previous > 0 and for the pair
\* (0, 0) they are the same.
C9_DivergeWheneverPreviousZero ==
    \A t \in Returned :
        \A i \in 1..Len(t.table) :
            \A k \in AggKeys :
                LET r == t.table[i]
                    c == metrics[k].current
                    p == metrics[k].previous
                IN  SamePair(r, k) =>
                        /\ (p = Num(0) /\ c # Num(0))
                              => metrics[k].variation # RowVarPct(r, k)
                        /\ (RGt(p, Num(0)) \/ (p = Num(0) /\ c = Num(0)))
                              => metrics[k].variation = RowVarPct(r, k)

\* C9 as amended: for every pair with previous = 0 and current other than 0
\* and 1 the two percentages differ; for previous = 0 and current = 1 both are
\* 100; for every pair with previous > 0 and for the pair (0, 0) they are the
\* same.
C9_DivergeUnlessCurrentOne ==
    \A t \in Returned :
        \A i \in 1..Len(t.table) :
            \A k \in AggKeys :
                LET r == t.table[i]
                    c == metrics[k].current
                    p == metrics[k].previous
                IN  SamePair(r, k) =>
                        /\ (p = Num(0) /\ c # Num(0) /\ c # Num(1))
                              => metrics[k].variation # RowVarPct(r, k)
                        /\ (p = Num(0) /\ c = Num(1))
                              => /\ metrics[k].variation = Num(100)
                                 /\ RowVarPct(r, k) = Num(100)
                        /\ (RGt(p, Num(0)) \/ (p = Num(0) /\ c = Num(0)))
                              => metrics[k].variation = RowVarPct(r, k)

\* 2 sessions against 0, both as the period totals and as one device's group:
\* 100 in the metrics dictionary, 200 in the table
C9_Witness ==
    /\ DeviceReturned
    /\ \E i \in 1..Len(comparison_device) :
        /\ SamePair(comparison_device[i], "sessions")
        /\ metrics["sessions"].previous = Num(0)
        /\ metrics["sessions"].current = Num(2)
        /\ metrics["sessions"].variation = Num(100)
        /\ comparison_device[i].sessions_var_pct = Num(200)

---------------------------------------------------------------------------
\* The order of the rows

---------------------------------------------------------------------------
\* Determinism

---------------------------------------------------------------------------
\* Empty and incomplete DataFrames

\* main() has both traffic DataFrames and has called calculate_comparison_metrics
MetricsCalled ==
    pc \in {KeyError, "device", "source", "report", "excel", "done"}

\* C12: a period with no rows is not an error: calculate_comparison_metrics
\* does not raise, it returns 0 for every metric of the empty period, and
\* main() goes on to its report.
C12_EmptyPeriodIsNotAnError ==
    (MetricsCalled /\ (Len(df_current) = 0 \/ Len(df_previous) = 0)) =>
        /\ pc # KeyError
        /\ \A key \in MetricKeys :
            /\ Len(df_current) = 0 => metrics[key].current = Num(0)
            /\ Len(df_previous) = 0 => metrics[key].previous = Num(0)

\* A column of the set is missing from the DataFrame
LacksColumn(df, cols) == \E col \in cols : col \notin Columns(df)

\* C13: calculate_comparison_metrics fails (with the KeyError pandas raises
\* for a column that is not there) whenever one of the eight metrics is
\* absent from the current or from the previous DataFrame, and returns no
\* dictionary: a missing metric is never defaulted to a value.
C13_MissingMetricFails ==
    (pc # "metrics"
        /\ (LacksColumn(df_current, MetricKeys) \/ LacksColumn(df_previous, MetricKeys)))
    => (pc = KeyError /\ metrics = None)

\* The call has failed on a previous period that has rows but no revenue
C13_Witness ==
    /\ pc = KeyError
    /\ Len(df_current) > 0
    /\ Len(df_previous) > 0
    /\ ~LacksColumn(df_current, MetricKeys)
    /\ "revenue" \notin Columns(df_previous)

\* C14: analyze_by_dimension is all-or-nothing: when the dimension or one of
\* sessions, users, revenue is absent from either DataFrame the call fails
\* and no table is returned; a table that is returned was built from two
\* DataFrames that both have the columns.
C14_AllOrNothing ==
    /\ (pc # "device"
            /\ (LacksColumn(df_current, AggKeys \cup {"device"})
                   \/ LacksColumn(df_previous, AggKeys \cup {"device"})))
       => (pc = KeyError /\ comparison_device = None /\ comparison_source = None)
    /\ \A t \in Returned :
           /\ ~LacksColumn(df_current, AggKeys \cup {t.dimension})
           /\ ~LacksColumn(df_previous, AggKeys \cup {t.dimension})

\* The call has failed on a current period with rows and all the columns
\* and a previous period with no rows, hence no column
C14_Witness ==
    /\ pc = KeyError
    /\ comparison_device = None
    /\ Len(df_current) > 0
    /\ ~LacksColumn(df_current, AggKeys \cup {"device"})
    /\ Len(df_previous) = 0

---------------------------------------------------------------------------
\* The inputs of the analysis

\* C15: calculate_comparison_metrics and analyze_by_dimension leave their
\* inputs alone: from the first call of the analysis to the Excel export, no
\* step of main() changes the rows, columns or values of the DataFrames of
\* the current and of the previous period.
C15_InputsUnchanged ==
    [][(pc \in {"metrics", "device", "source", "report", "excel"})
          => (df_current' = df_current /\ df_previous' = df_previous)]_vars

\* The Excel file written from a current period of two rows, still in the
\* order of the response (the row with fewer sessions first)
C15_Witness ==
    /\ pc = "done"
    /\ Len(df_current) = 2
    /\ RGt(df_current[2].sessions, df_current[1].sessions)
    /\ Len(df_previous) > 0

---------------------------------------------------------------------------
\* The order of a run of main()

\* The log has the return of the fetch
Fetched(op, period) ==
    \E i \in 1..Len(events) : events[i].op = op /\ events[i].detail = period

FetchOps ==
    {"fetch_organic_traffic_data", "fetch_organic_search_data", "fetch_landing_pages"}

\* The log has an API request
ApiRequested == \E i \in 1..Len(events) : events[i].op \in FetchOps

\* The log has the write of a report file
ReportWritten ==
    \E i \in 1..Len(events) : events[i].op \in {"write_html", "write_excel"}

\* main() is at a call of the analysis or past it
InAnalysis ==
    pc \in {"metrics", "device", "source", KeyError, "TypeError",
            "report", "excel", "done"}

\* C16: when calculate_comparison_metrics or analyze_by_dimension is invoked,
\* the six fetches (traffic, Organic Search, landing pages; current and
\* previous period) have all returned, and no DataFrame handed to either
\* function is the None of a failed fetch.
C16_FetchedBeforeAnalysis ==
    InAnalysis =>
        /\ \A op \in FetchOps, period \in {"Atual", "Anterior"} : Fetched(op, period)
        /\ df_current # None
        /\ df_previous # None
        /\ df_organic_search_current # None
        /\ df_organic_search_previous # None
        /\ pc # "TypeError"

\* The analysis has run after an Organic Search fetch and a landing-page
\* fetch that failed
C16_Witness ==
    /\ pc = "source"
    /\ landing_previous = None
    /\ \E i \in 1..Len(events) :
           events[i].op = "fetch_organic_search_data" /\ events[i].result = "None"

\* C18: authenticate_ga4 of main.py returns None, and does not raise, when
\* the client-secret file is missing or the OAuth flow raises an Exception;
\* when it has returned None main() has stopped, with no API request made
\* and no report written.
C18_AuthenticationFailureStops ==
    /\ \A i \in 1..Len(events) :
           (events[i].op = "authenticate_ga4"
               /\ events[i].detail \in {"not started", "Exception"})
           => events[i].result = None
    /\ client = None => (pc = "returned" /\ ~ApiRequested /\ ~ReportWritten)

\* main() has returned after an OAuth flow that raised
C18_Witness ==
    /\ pc = "returned"
    /\ client = None
    /\ events = <<Event("authenticate_ga4", "Exception", None)>>

\* C19: when fetch_organic_traffic_data returned None for the current or
\* for the previous period, main() returns once the fetches are over: no
\* comparison is computed and no report is written, whatever the other
\* fetches returned.
C19_FailedTrafficFetchStops ==
    (df_current = None \/ df_previous = None) =>
        /\ pc \in {"fetch_organic_current", "fetch_landing_current",
                   "fetch_traffic_previous", "fetch_organic_previous",
                   "fetch_landing_previous", "check", "returned"}
        /\ metrics = None
        /\ organic_search_metrics = None
        /\ comparison_device = None
        /\ comparison_source = None
        /\ ~ReportWritten

\* main() has returned after the previous period alone failed, the current
\* period and the other four fetches having returned rows
C19_Witness ==
    /\ pc = "returned"
    /\ df_previous = None
    /\ \A i \in 1..Len(events) :
           (events[i].op \in FetchOps
               /\ ~(events[i].op = "fetch_organic_traffic_data"
                       /\ events[i].detail = "Anterior"))
           => events[i].result = "rows"
    /\ Len(events) = 7

\* The Organic Search fetch of the period failed or returned no rows
OrganicWithout(period) ==
    \E i \in 1..Len(events) :
        /\ events[i].op = "fetch_organic_search_data"
        /\ events[i].detail = period
        /\ events[i].result \in {"None", "empty"}

\* Both traffic fetches returned rows
TrafficHasRows ==
    \A period \in {"Atual", "Anterior"} :
        \E i \in 1..Len(events) :
            /\ events[i].op = "fetch_organic_traffic_data"
            /\ events[i].detail = period
            /\ events[i].result = "rows"

\* The six fetches have returned and main() has looked at what they returned
ChecksDone == Fetched("fetch_landing_pages", "Anterior") /\ pc # "check"

\* C20: when the Organic Search fetch of either period failed or returned no
\* rows, the Organic Search metrics are the all-zero dictionary for the eight
\* keys, whatever the other period returned, and the run still goes through
\* the analysis of the traffic data to the HTML and the Excel report.
C20_OrganicFailureIsNotFatal ==
    (ChecksDone /\ TrafficHasRows
        /\ (OrganicWithout("Atual") \/ OrganicWithout("Anterior")))
    => /\ pc \in {"metrics", "device", "source", "report", "excel", "done"}
       /\ pc # "metrics" => organic_search_metrics = EmptyOrganicMetrics
       /\ pc \in {"excel", "done"} =>
              \E i \in 1..Len(events) : events[i].op = "write_html"
       /\ pc = "done" =>
              \E i \in 1..Len(events) : events[i].op = "write_excel"

\* Both reports written after the Organic Search fetch failed for the
\* previous period and returned rows for the current one
C20_Witness ==
    /\ pc = "done"
    /\ organic_search_metrics = EmptyOrganicMetrics
    /\ \E i, j \in 1..Len(events) :
           /\ events[i] = Event("fetch_organic_search_data", "Atual", "rows")
           /\ events[j] = Event("fetch_organic_search_data", "Anterior", "None")
    /\ \E i \in 1..Len(events) : events[i].op = "write_html"
    /\ \E i \in 1..Len(events) : events[i].op = "write_excel"

---------------------------------------------------------------------------
\* The stages of the three scripts

\* The calls that send a query to the API, in any of the scripts
QueryOps ==
    FetchOps \cup {"fetch_bemol_web_data", "fetch_bemol_app_data",
                   "fetch_bemol_farma_data", "fetch_app_data_2025"}

WriteOps == {"write_html", "write_excel"}

\* The queries that have returned
Queries ==
    { <<events[i].op, events[i].detail>> :
        i \in { j \in 1..Len(events) : events[j].op \in QueryOps } }

\* All the queries of a run of main.py, of the collector, of the filter script
RunQueries ==
    { FetchOps \X {"Atual", "Anterior"},
      {"fetch_bemol_web_data", "fetch_bemol_app_data", "fetch_bemol_farma_data"}
          \X {""},
      {<<"fetch_app_data_2025", "">>} }

\* C17: in each of the three scripts the stages come in the order
\* authenticate, query, aggregate, export: every API query comes after an
\* authentication that returned a client, and a report file is written only
\* when all the queries of the run have returned, none coming after it, and
\* in main.py only once the analysis has returned its tables.
C17_StagesInOrder ==
    /\ \A i \in 1..Len(events) :
           events[i].op \in QueryOps =>
               \E j \in 1..(i - 1) :
                   events[j].op = "authenticate_ga4" /\ events[j].result = "client"
    /\ \A i \in 1..Len(events) :
           events[i].op \in WriteOps =>
               /\ Queries \in RunQueries
               /\ \A j \in 1..Len(events) : events[j].op \in QueryOps => j < i
               /\ events[i].op = "write_html" => SourceReturned

\* The collector has exported after its three fetches, one of which failed
C17_Witness ==
    /\ pc = "done"
    /\ \E i \in 1..(Len(events) - 4) :
           /\ events[i] = Event("authenticate_ga4", "", "client")
           /\ events[i + 3] = Event("fetch_bemol_farma_data", "", None)
           /\ events[i + 4].op = "write_excel"

---------------------------------------------------------------------------
\* The sessions variation of Organic Search the report was written from
SessionsVar == organic_search_metrics["sessions"].variation

\* generate_html_report has returned
HtmlWritten == alert_class # None

\* C21: the alert box of the HTML report has exactly one of the three
\* classes, chosen from the variation v of the Organic Search sessions:
\* 'alert-danger' exactly when v < -20, 'alert-warning' exactly when
\* -20 <= v < 0, and 'alert-success' exactly when v >= 0.
C21_AlertClassFromVariation ==
    HtmlWritten =>
        LET n == SessionsVar[1]
            d == SessionsVar[2]
        IN  /\ alert_class \in {"alert-danger", "alert-warning", "alert-success"}
            /\ alert_class = "alert-danger" <=> n < (-20) * d
            /\ alert_class = "alert-warning" <=> (n >= (-20) * d /\ n < 0)
            /\ alert_class = "alert-success" <=> n >= 0

\* A report written for a fall of exactly 20%, which is a warning
C21_Witness ==
    /\ HtmlWritten
    /\ SessionsVar = Num(-20)
    /\ alert_class = "alert-warning"

---------------------------------------------------------------------------
\* Properties of authenticate_ga4 of the collector

\* A step of the run is in the log
Did(op) == \E i \in 1..Len(events) : events[i].op = op

\* The step of the run ended this way
DidWith(op, result) ==
    \E i \in 1..Len(events) : events[i] = Event(op, "", result)

\* authenticate_ga4 has returned
AuthReturned == Did("authenticate_ga4")

\* C22: when the token file exists and holds valid credentials,
\* authenticate_ga4 of the collector returns a client without refreshing,
\* without starting the interactive OAuth flow, without looking for the
\* client-secret file and without writing the token file.
C22_ValidTokenIsUsedAsIs ==
    (AuthReturned /\ DidWith("load_token", "valid")) =>
        /\ DidWith("authenticate_ga4", "client")
        /\ client = "client"
        /\ ~Did("refresh")
        /\ ~Did("exists_client_secret")
        /\ ~Did("run_local_server")
        /\ ~Did("write_token")
        /\ token_file = "valid"

\* A client returned from valid stored credentials with no client-secret file
C22_Witness ==
    /\ AuthReturned
    /\ DidWith("load_token", "valid")
    /\ ~client_secret_file
    /\ client = "client"

\* The refresh of expired stored credentials raised
RefreshFailed ==
    /\ AuthReturned
    /\ DidWith("load_token", "expired")
    /\ DidWith("refresh", "Exception")

\* C23: when the stored credentials of the collector are expired with a
\* refresh token and the refresh raises, authenticate_ga4 does not fail: it
\* goes on to a new interactive authentication, and returns None only when
\* the client-secret file is missing, the user interrupts the flow or the
\* flow raises; it returns the client otherwise, and no exception reaches
\* its caller.
C23_FailedRefreshFallsBackToLogin ==
    RefreshFailed =>
        /\ pc \notin {"Exception", "KeyboardInterrupt"}
        /\ Did("exists_client_secret")
        /\ DidWith("exists_client_secret", "found") => Did("run_local_server")
        /\ \/ DidWith("authenticate_ga4", "client")
           \/ DidWith("authenticate_ga4", None)
        /\ DidWith("authenticate_ga4", None) <=>
               \/ DidWith("exists_client_secret", "missing")
               \/ DidWith("run_local_server", "KeyboardInterrupt")
               \/ DidWith("run_local_server", "Exception")

\* A client returned from a new login made after the refresh raised
C23_Witness ==
    /\ RefreshFailed
    /\ DidWith("run_local_server", "credentials")
    /\ client = "client"

\* C24: authenticate_ga4 of the collector writes the token file exactly when
\* a new interactive OAuth flow completed in that call, and leaves in it
\* what it loaded otherwise; credentials it refreshed are not written back,
\* so the token file still holds the expired credentials for the next run.
C24_TokenWrittenOnlyAfterLogin ==
    AuthReturned =>
        /\ Did("write_token") <=> DidWith("run_local_server", "credentials")
        /\ \A held \in TokenStates :
               (DidWith("load_token", held) /\ ~Did("write_token")) =>
                   token_file = held
        /\ DidWith("refresh", "refreshed") =>
               /\ DidWith("authenticate_ga4", "client")
               /\ ~Did("write_token")
               /\ token_file = "expired"

\* A client returned from refreshed credentials, the token file still expired
C24_Witness ==
    /\ AuthReturned
    /\ DidWith("refresh", "refreshed")
    /\ client = "client"
    /\ token_file = "expired"

---------------------------------------------------------------------------
\* Properties of main() and export_to_excel of the collector

\* The calls main() of the collector makes once it has a client, in order
CollectorPlan ==
    <<"fetch_bemol_web_data", "fetch_bemol_app_data", "fetch_bemol_farma_data",
      "write_excel">>

IsCollectorCall(e) == e.op \in {CollectorPlan[i] : i \in 1..Len(CollectorPlan)}

\* The calls of the plan made so far, in the order they were made
CollectorCalls == SelectSeq(events, IsCollectorCall)

\* How many calls of the plan have returned at each point of main()
CollectorProgress ==
    IF pc = "collector_fetch_web" THEN 0
    ELSE IF pc = "collector_fetch_app" THEN 1
    ELSE IF pc = "collector_fetch_farma" THEN 2
    ELSE IF pc = "collector_export" THEN 3
    ELSE IF pc = "done" THEN 4
    ELSE -1

\* C25: once authentication succeeded, main() of the collector attempts the
\* three fetches (web, App, Farma) once each in that order whatever each
\* returns, and calls export_to_excel once, after the three have returned:
\* the run is at one of these calls or done, and the calls made so far are
\* the first ones of the plan, in order, none repeated.
C25_ThreeFetchesThenExport ==
    DidWith("authenticate_ga4", "client") =>
        /\ CollectorProgress >= 0
        /\ Len(CollectorCalls) = CollectorProgress
        /\ \A i \in 1..Len(CollectorCalls) :
               CollectorCalls[i].op = CollectorPlan[i]

\* A run that exported after fetches of which the first two returned None
C25_Witness ==
    /\ pc = "done"
    /\ DidWith("fetch_bemol_web_data", None)
    /\ DidWith("fetch_bemol_app_data", None)
    /\ DidWith("fetch_bemol_farma_data", "rows")
    /\ Did("write_excel")

\* C26: the workbook export_to_excel of the collector writes contains the
\* sheet 'Bemol (web)', 'Bemol (App)' or 'Bemol Farma' exactly when the
\* corresponding data set is neither None nor empty: a None or empty data
\* set gives no sheet and does not keep the other sheets out.
C26_SheetPerNonEmptyDataSet ==
    (pc = "done" /\ Did("write_excel")) =>
        /\ "Bemol (web)" \in workbook <=>
               (collected.df_bemol_web # None /\ collected.df_bemol_web # "empty")
        /\ "Bemol (App)" \in workbook <=>
               (collected.df_bemol_app # None /\ collected.df_bemol_app # "empty")
        /\ "Bemol Farma" \in workbook <=>
               (collected.df_bemol_farma # None
                /\ collected.df_bemol_farma # "empty")

\* A workbook of the one sheet whose data set has rows, the first data set
\* being None and the second empty
C26_Witness ==
    /\ pc = "done"
    /\ collected.df_bemol_web = None
    /\ collected.df_bemol_app = "empty"
    /\ collected.df_bemol_farma = "rows"
    /\ workbook = {"Bemol Farma"}

====
